---- MODULE Spec2Model ----
(***************************************************************************)
(* Upload coordinator of the backend:                                      *)
(*  - server.ts: the in-memory uploadStore, the staging directory          *)
(*    uploads/chunks, the final directory uploads/final, the HTTP routes   *)
(*    with the validators of middleware/security.ts, the timers and the    *)
(*    start of the process;                                                *)
(*  - services/uploadService.ts with services/redisService.ts: the upload  *)
(*    metadata, progress, chunks and the activeUploads statistic kept in   *)
(*    Redis;                                                               *)
(*  - middleware/security.ts: the two rate limiters in front of the routes;*)
(*  - the mobile app, components/UploadManager.tsx and UploadItem.tsx.     *)
(*                                                                         *)
(* A route of server.ts is one action, run from its first statement to its *)
(* response; its response code is an operator of the state the request     *)
(* meets.  uploadChunk of the service is a sequence of actions, one per    *)
(* await that other calls can interleave with; assembleFile is one step.   *)
(*                                                                         *)
(* Time is counted in units of 30 minutes (the stale threshold); a file    *)
(* carries its age in these units, saturating above the threshold.  Sizes  *)
(* of the service and of the validators are in units of half a megabyte.   *)
(* Not modelled: startTime, endTime and uploadSpeed of a record, the       *)
(* statistics other than activeUploads and the expiry of the Redis keys    *)
(* (no handler branches on them).                                          *)
(***************************************************************************)
EXTENDS Integers, Sequences, FiniteSets, Bags, TLC

\* ------------------------------------------------------------ bounds
\* the chunk handler is admitted while uploadedChunks is below this
MaxUploaded == 2
\* largest chunkIndex a client sends
MaxIndex == 1
\* largest totalChunks a client declares
MaxTotal == 2

\* most uploadChunk calls in flight at a time
MaxCalls == 2
\* an index is sent again while fewer than this many calls for it resolved
MaxAcks == 2
\* an uploadChunk call is admitted while activeUploads is above minus this
MaxDrift == 1
\* the files selected in the mobile app, and the chunks of each
MaxFiles == 4
MaxChunks == 2
\* taps and network events the mobile upload manager is followed through
MaxEvents == 5
\* chunk requests are admitted while fewer than this many writes are in flight
MaxInFlight == 17

\* ------------------------------------------------------------ values
\* 30 * 60 * 1000 ms, in units of 30 minutes
StaleThreshold == 1
\* ages saturate one unit above the threshold
MaxAge == StaleThreshold + 1

\* crypto.randomUUID() results: equal length, none a prefix of another
Uuids == {<<"a", "b">>}
\* String(undefined), the key trackUploadProgress builds for a record
\* that has no uploadId field
Undefined == <<"u">>
\* ids a client can put in the URL without init having issued them
ForeignIds == {<<"a">>}
\* ids a request can name
Ids == Uuids \cup ForeignIds
\* keys of uploadStore
Keys == Ids \cup {Undefined}

Indices == 0..MaxIndex
Totals == 1..MaxTotal
\* chunk payloads (req.file.buffer), as byte sequences; never empty,
\* fileSizeValidator refuses a file of size 0
Payloads == {<<1>>, <<2, 3>>}
\* declared fileSize of init
FileSizes == {3}
FileNames == {"a.jpg"}

\* the slots of the uploadChunk calls in flight, and a free slot
Calls == 1..MaxCalls
IdleCall == [pc |-> "idle"]
\* the chunk requests whose write can be in flight: params.uploadId and the
\* body's chunkIndex and totalChunks (the file part is the first payload)
WriteJobs == [uploadId : Uuids, chunkIndex : Indices, totalChunks : Totals]
WriteBuffer == <<1>>
\* the uris of the files the mobile app can select
Uris == 1..MaxFiles
NoActive == [f \in Uris |-> 0]
\* the addresses requests come from (req.ip)
Clients == {"ip1"}

NoRec == [absent |-> TRUE]
NoFile == [enoent |-> TRUE]

\* `${uploadId}-${chunkIndex}`
ChunkName(uploadId, chunkIndex) == uploadId \o <<"-", chunkIndex>>
ChunkNames == {ChunkName(id, i) : id \in Ids, i \in Indices}

\* String.prototype.startsWith
StartsWith(s, prefix) ==
    /\ Len(prefix) <= Len(s)
    /\ SubSeq(s, 1, Len(prefix)) = prefix

VARIABLES
    uploadStore,   \* uploadStore[`upload:${id}`]: the record, or NoRec
    chunksDir,     \* CHUNKS_DIR: file name -> [data, age], or NoFile
    finalDir,      \* FINAL_DIR: file name -> [data], or NoFile
    issued,        \* uuids init has returned
    aborted,       \* history: ids whose DELETE was answered 200
    seenDone       \* history: ids whose status read returned completed

\* the state of UploadService (services/uploadService.ts) and of the Redis
\* keys it uses through RedisService
VARIABLES
    metadata,      \* Redis upload:${uploadId}:metadata, parsed, or NoRec
    progress,      \* Redis upload:${uploadId}:progress, or NoRec
    chunkKeys,     \* Redis chunk:${uploadId}:${chunkIndex}: the JSON text, or NoFile
    completedDir,  \* COMPLETED_DIR: `${uploadId}-${fileName}` -> [data], or NoFile
    calls,         \* the uploadChunk calls in flight, each at one of its awaits
    acks,          \* history: how many uploadChunk calls resolved, per index
    uploadStats    \* Redis stats:active_uploads, as getUploadStats reads it

\* history: the last chunk request that a validator of the chunk route
\* answered itself (a set of one line, empty before the first)
VARIABLE refused

\* the two limiters that server.ts mounts in front of every route
\* (middleware/security.ts), each keyed by req.ip
VARIABLES
    rateLimiter,   \* RateLimiterMemory: ip -> [consumedPoints, age], or NoRec
    uploadLimiter, \* express-rate-limit: ip -> [totalHits, age], or NoRec
    answered       \* history: how the last request left the two limiters

rateVars == <<rateLimiter, uploadLimiter, answered>>

\* the chunk requests of server.ts that wait at `await fs.promises.writeFile`
VARIABLES
    writing,       \* how many requests of each kind are at the await
    overtaken      \* history: the kinds at the await since a DELETE of their
                   \* handle was answered 200

writeVars == <<writing, overtaken>>

\* the mobile upload manager (MediaUPloadMobile_expo, UploadManager.tsx) with
\* the UploadItem of each file as far as the manager sees it
VARIABLES
    files,         \* the files prop: the uris selected and not removed
    uploadStates,  \* useState uploadStates: uri -> status, "none" without entry
    uploading,     \* useState uploading
    activeUploads, \* useState activeUploads: how often each uri is in the array
    timers,        \* pending setTimeout(startNextUpload, 100), a bag of renders
    loops,         \* the startUpload loops that run, a bag of [uri, render, i]
    items,         \* per UploadItem: status, currentChunk, controller.canceled
    events         \* history: taps and network events so far

mgrVars == <<files, uploadStates, uploading, activeUploads, timers, loops,
             items, events>>

\* one UploadItem (UploadItem.tsx) by itself, its onStateChange left out
VARIABLES
    status,        \* useState status
    controller,    \* useRef controller: [paused, canceled]
    currentChunk,  \* useState currentChunk
    running        \* the startUpload loops that run, a bag of [i, pc]

itemVars == <<status, controller, currentChunk, running>>

mobileVars == <<mgrVars, itemVars>>

\* the state of the routes of server.ts and of the upload service
backendVars == <<uploadStore, chunksDir, finalDir, issued, aborted, seenDone,
                 refused, metadata, progress, chunkKeys, completedDir, calls,
                 acks, uploadStats>>

\* what the whole-handler routes of server.ts and the upload service both
\* leave alone
extVars == <<rateVars, writeVars, mobileVars>>

srvVars == <<uploadStore, chunksDir, finalDir, issued, aborted, seenDone,
             refused, extVars>>

svcVars == <<metadata, progress, chunkKeys, completedDir, calls, acks,
             uploadStats>>

vars == <<uploadStore, chunksDir, finalDir, issued, aborted, seenDone,
          metadata, progress, chunkKeys, completedDir, calls, acks, uploadStats,
          refused, extVars>>

\* ------------------------------------------------------------ helpers
\* the ids a client can name: those init has returned to it, and the ids it
\* makes up (a uuid that was not issued cannot be guessed)
Known == issued \cup ForeignIds

Records == {id \in Keys : uploadStore[id] # NoRec}

\* a file of a directory, ENOENT when there is none
FileAt(dir, f) == IF f \in DOMAIN dir THEN dir[f] ELSE NoFile

\* fs.promises.readdir(CHUNKS_DIR).filter(chunk => chunk.startsWith(uploadId))
relevantChunks(dir, uploadId) ==
    {f \in ChunkNames : dir[f] # NoFile /\ StartsWith(f, uploadId)}

\* the staging chunks written for uploadId itself
OwnChunks(dir, uploadId) ==
    {f \in {ChunkName(uploadId, i) : i \in Indices} : dir[f] # NoFile}

\* the record init and the chunk handler create.  History fields: `received`,
\* the chunk indices of this record answered 200; `idle`, the time since the
\* last accepted chunk or status change; `assembled`, complete answered 200
NewRecord(hasId, fileName, fileSize, totalChunks) ==
    [hasId |-> hasId, fileName |-> fileName, fileSize |-> fileSize,
     totalChunks |-> totalChunks, uploadedChunks |-> 0,
     status |-> "in_progress",
     received |-> {}, idle |-> 0, assembled |-> FALSE]

\* trackUploadProgress(uploadId) on a store
trackUploadProgress(store, uploadId) ==
    IF store[uploadId] = NoRec
    THEN store
    ELSE IF store[uploadId].uploadedChunks = store[uploadId].totalChunks
         THEN [store EXCEPT ![uploadId].status = "completed",
                            ![uploadId].idle = 0]
         ELSE store

Init ==
    /\ uploadStore = [id \in Keys |-> NoRec]
    /\ chunksDir = [f \in ChunkNames |-> NoFile]
    /\ finalDir = [n \in FileNames |-> NoFile]
    /\ issued = {}
    /\ aborted = {}
    /\ seenDone = {}
    /\ metadata = [id \in Uuids |-> NoRec]
    /\ progress = [id \in Uuids |-> NoRec]
    /\ chunkKeys = [id \in Uuids |-> [i \in Indices |-> NoFile]]
    /\ completedDir = [id \in Uuids |-> NoFile]
    /\ calls = [c \in Calls |-> IdleCall]
    /\ acks = [id \in Uuids |-> [i \in Indices |-> 0]]
    /\ uploadStats = [activeUploads |-> 0]
    /\ refused = {}
    /\ rateLimiter = [ip \in Clients |-> NoRec]
    /\ uploadLimiter = [ip \in Clients |-> NoRec]
    /\ answered = {}
    /\ writing = [job \in WriteJobs |-> 0]
    /\ overtaken = {}
    /\ files = {}
    /\ uploadStates = [f \in Uris |-> "none"]
    /\ uploading = FALSE
    /\ activeUploads = NoActive
    /\ timers = EmptyBag
    /\ loops = EmptyBag
    /\ items = [f \in Uris |->
                  [status |-> "idle", currentChunk |-> 0, canceled |-> FALSE]]
    /\ events = 0
    /\ status = "idle"
    /\ controller = [paused |-> FALSE, canceled |-> FALSE]
    /\ currentChunk = 0
    /\ running = EmptyBag

\* ------------------------------------------------------------ init
\* POST /api/upload/init
InitUpload(uploadId, fileName, fileSize, totalChunks) ==
    /\ uploadId \in Uuids \ issued
    /\ uploadStore' = [uploadStore EXCEPT ![uploadId] =
                          NewRecord(FALSE, fileName, fileSize, totalChunks)]
    /\ issued' = issued \cup {uploadId}
    /\ UNCHANGED <<chunksDir, finalDir, aborted, seenDone,
                 svcVars, refused, extVars>>

\* ------------------------------------------------------------ chunk
\* the response of POST /api/upload/chunk/:uploadId to a request that carries
\* a file and has passed the validators: the handler has no other exit
ChunkCode(store, uploadId) == 200

\* the store after "Update progress" and "Update the store entry"
ChunkProgress(store, uploadId, chunkIndex, totalChunks, size, fileName) ==
    LET created == IF store[uploadId] = NoRec
                   THEN [store EXCEPT ![uploadId] =
                            NewRecord(TRUE, fileName, size, totalChunks)]
                   ELSE store
        counted == [created EXCEPT ![uploadId].uploadedChunks = @ + 1,
                                   ![uploadId].received = @ \cup {chunkIndex},
                                   ![uploadId].idle = 0]
    IN  IF counted[uploadId].uploadedChunks = counted[uploadId].totalChunks
        THEN trackUploadProgress(counted, uploadId)
        ELSE counted

\* POST /api/upload/chunk/:uploadId
ChunkUpload(uploadId, chunkIndex, totalChunks, data, fileName) ==
    /\ uploadStore[uploadId] # NoRec
          => uploadStore[uploadId].uploadedChunks < MaxUploaded
    /\ chunksDir' = [chunksDir EXCEPT ![ChunkName(uploadId, chunkIndex)] =
                        [data |-> data, age |-> 0]]
    /\ uploadStore' = ChunkProgress(uploadStore, uploadId, chunkIndex,
                                    totalChunks, Len(data), fileName)
    /\ UNCHANGED <<finalDir, issued, aborted, seenDone,
                 svcVars, refused, extVars>>

\* POST /api/upload/chunk/:uploadId when fs.promises.writeFile rejects: the
\* catch answers 500 and nothing after the write has run.  The file is
\* untouched when it could not be opened, and otherwise holds the `written`
\* first bytes of the buffer
ChunkWriteFails(uploadId, chunkIndex, data, opened, written) ==
    /\ written < Len(data)
    /\ chunksDir' = IF opened
                    THEN [chunksDir EXCEPT ![ChunkName(uploadId, chunkIndex)] =
                            [data |-> SubSeq(data, 1, written), age |-> 0]]
                    ELSE chunksDir
    /\ UNCHANGED <<uploadStore, finalDir, issued, aborted, seenDone,
                 svcVars, refused, extVars>>

\* ------------------------------------------------------------ validators
\* a field the request does not carry
NoField == <<"undefined">>
\* what a middleware gives when it calls next() and answers nothing
CalledNext == 0

\* MIME types, as <<type, subtype>>
allowedTypes ==
    {<<"image", "jpeg">>, <<"image", "png">>, <<"image", "gif">>,
     <<"video", "mp4">>, <<"video", "webm">>, <<"application", "pdf">>,
     <<"text", "plain">>, <<"application", "octet-stream">>}

\* MAX_FILE_SIZE, 100 * 1024 * 1024 bytes, in units of half a megabyte
MAX_FILE_SIZE == 200

\* the magicNumbers table of maliciousFileDetector, by MIME subtype
magicNumbers(subtype) ==
    CASE subtype = "jpeg" -> <<255, 216, 255>>
      [] subtype = "png"  -> <<137, 80, 78, 71>>
      [] subtype = "gif"  -> <<71, 73, 70, 56>>
      [] subtype = "mp4"  -> <<0, 0, 0, 32, 102, 116, 121, 112>>
      [] subtype = "webm" -> <<26, 69, 223, 163>>
      [] OTHER -> NoField

\* buffer.slice(0, n)
Slice(buffer, n) == SubSeq(buffer, 1, IF n < Len(buffer) THEN n ELSE Len(buffer))

\* fileTypeValidator: CalledNext, or the status it answers
fileTypeValidator(req) ==
    LET fileType == IF req.fileType # NoField THEN req.fileType ELSE req.mimetype
    IN  IF fileType = NoField THEN 400
        ELSE IF fileType \notin allowedTypes THEN 400
        ELSE CalledNext

\* fileSizeValidator; a req.fileSize of 0 is a body without the field
fileSizeValidator(req) ==
    LET fileSize == IF req.fileSize # 0 THEN req.fileSize ELSE Len(req.buffer)
    IN  IF fileSize = 0 \/ fileSize > MAX_FILE_SIZE THEN 400 ELSE CalledNext

\* maliciousFileDetector: the request carries a file
maliciousFileDetector(req) ==
    LET expectedMagicNumber == magicNumbers(req.mimetype[2])
    IN  IF /\ expectedMagicNumber # NoField
           /\ Slice(req.buffer, Len(expectedMagicNumber)) # expectedMagicNumber
        THEN 400
        ELSE CalledNext

\* the middleware of the chunk route in the order it is mounted: the first
\* that does not call next(), with its answer
Middleware(req) ==
    IF fileTypeValidator(req) # CalledNext
    THEN [by |-> "fileTypeValidator", status |-> fileTypeValidator(req)]
    ELSE IF fileSizeValidator(req) # CalledNext
    THEN [by |-> "fileSizeValidator", status |-> fileSizeValidator(req)]
    ELSE IF maliciousFileDetector(req) # CalledNext
    THEN [by |-> "maliciousFileDetector", status |-> maliciousFileDetector(req)]
    ELSE [by |-> "handler", status |-> ChunkCode(uploadStore, req.uploadId)]

\* the line the history keeps of a request a validator answered
Refusal(req) ==
    [uploadId |-> req.uploadId, chunkIndex |-> req.chunkIndex,
     by |-> Middleware(req).by, status |-> Middleware(req).status]

\* the chunk requests of the clients: with or without body.fileType and
\* body.fileSize, the file part sent as image/jpeg or as octet-stream, the
\* buffer with or without the JPEG magic number
Requests(ids) ==
    [uploadId : ids, chunkIndex : Indices, totalChunks : {MaxTotal},
     fileType : {NoField, <<"image", "jpeg">>, <<"application", "x-sh">>},
     fileSize : {0, MAX_FILE_SIZE + 1},
     mimetype : {<<"image", "jpeg">>, <<"application", "octet-stream">>},
     buffer : {<<255, 216, 255>>, <<1>>},
     originalname : FileNames]

\* validators that answer the request and then call next() all the same
ChunkRequest_noReturn(req) ==
    ChunkUpload(req.uploadId, req.chunkIndex, req.totalChunks, req.buffer,
                req.originalname)

\* POST /api/upload/chunk/:uploadId with its middleware: upload.single,
\* fileTypeValidator, fileSizeValidator, maliciousFileDetector, the handler
ChunkRequest(req) ==
    IF Middleware(req).by = "handler"
    THEN ChunkUpload(req.uploadId, req.chunkIndex, req.totalChunks, req.buffer,
                     req.originalname)
    ELSE /\ refused' = {Refusal(req)}
         /\ UNCHANGED <<uploadStore, chunksDir, finalDir, issued, aborted,
                        seenDone, svcVars, extVars>>

\* ------------------------------------------------------------ status
\* what GET /api/upload/status/:uploadId answers
StatusRead(store, uploadId) ==
    IF store[uploadId] = NoRec THEN "404" ELSE store[uploadId].status

\* GET /api/upload/status/:uploadId
GetStatus(uploadId) ==
    /\ seenDone' = IF StatusRead(uploadStore, uploadId) = "completed"
                   THEN seenDone \cup {uploadId}
                   ELSE seenDone
    /\ UNCHANGED <<uploadStore, chunksDir, finalDir, issued, aborted,
                 svcVars, refused, extVars>>

\* ------------------------------------------------------------ complete
\* the chunk payloads the reassembly loop writes to the stream: chunk i, i+1,
\* ... up to totalChunks - 1, stopping at the first readFile that throws
RECURSIVE Reassemble(_, _, _, _)
Reassemble(dir, uploadId, i, totalChunks) ==
    IF i >= totalChunks \/ FileAt(dir, ChunkName(uploadId, i)) = NoFile
    THEN <<>>
    ELSE dir[ChunkName(uploadId, i)].data
           \o Reassemble(dir, uploadId, i + 1, totalChunks)

\* every chunk the reassembly loop reads is there
AllReadable(dir, uploadId, totalChunks) ==
    \A i \in 0..(totalChunks - 1) : FileAt(dir, ChunkName(uploadId, i)) # NoFile

\* the response of POST /api/upload/complete/:uploadId
CompleteCode(store, dir, uploadId) ==
    IF store[uploadId] = NoRec THEN 404
    ELSE IF Cardinality(relevantChunks(dir, uploadId)) # store[uploadId].totalChunks
    THEN 400
    ELSE IF ~AllReadable(dir, uploadId, store[uploadId].totalChunks) THEN 500
    ELSE 200

\* FINAL_DIR after the handler: createWriteStream truncates the final file,
\* the loop writes the chunks it could read
CompleteFinal(store, dir, final, uploadId) ==
    IF CompleteCode(store, dir, uploadId) \in {200, 500}
    THEN [final EXCEPT ![store[uploadId].fileName] =
             [data |-> Reassemble(dir, uploadId, 0, store[uploadId].totalChunks)]]
    ELSE final

\* CHUNKS_DIR after the handler: "Cleanup chunks" unlinks relevantChunks
CompleteChunks(store, dir, uploadId) ==
    IF CompleteCode(store, dir, uploadId) = 200
    THEN [f \in ChunkNames |->
             IF f \in relevantChunks(dir, uploadId) THEN NoFile ELSE dir[f]]
    ELSE dir

\* uploadStore after the handler: "Update the upload store with completed
\* status"
CompleteStore(store, dir, uploadId) ==
    IF CompleteCode(store, dir, uploadId) = 200
    THEN [store EXCEPT ![uploadId].status = "completed",
                       ![uploadId].uploadedChunks = store[uploadId].totalChunks,
                       ![uploadId].idle = 0,
                       ![uploadId].assembled = TRUE]
    ELSE store

\* POST /api/upload/complete/:uploadId
CompleteUpload(uploadId) ==
    /\ finalDir' = CompleteFinal(uploadStore, chunksDir, finalDir, uploadId)
    /\ chunksDir' = CompleteChunks(uploadStore, chunksDir, uploadId)
    /\ uploadStore' = CompleteStore(uploadStore, chunksDir, uploadId)
    /\ UNCHANGED <<issued, aborted, seenDone,
                 svcVars, refused, extVars>>

\* ------------------------------------------------------------ delete
\* the response of DELETE /api/upload/:uploadId
DeleteCode(store, uploadId) == IF store[uploadId] = NoRec THEN 404 ELSE 200

\* DELETE /api/upload/:uploadId
DeleteUpload(uploadId) ==
    LET code == DeleteCode(uploadStore, uploadId)
    IN  /\ chunksDir' =
              IF code = 200
              THEN [f \in ChunkNames |->
                       IF f \in relevantChunks(chunksDir, uploadId)
                       THEN NoFile ELSE chunksDir[f]]
              ELSE chunksDir
        /\ uploadStore' =
              IF code = 200
              THEN [uploadStore EXCEPT ![uploadId] = NoRec]
              ELSE uploadStore
        /\ aborted' = IF code = 200 THEN aborted \cup {uploadId} ELSE aborted
        /\ UNCHANGED <<finalDir, issued, seenDone,
                 svcVars, refused, extVars>>

\* ------------------------------------------------------------ timers
\* the key of the record the tracking job passes: upload.uploadId, a field
\* only the chunk handler sets
TrackKey(store, k) == IF store[k].hasId THEN k ELSE Undefined

\* the 5 s tracking job: trackUploadProgress(upload.uploadId) for every record
\* whose status is in_progress
TrackingJob ==
    LET tracked == {TrackKey(uploadStore, k) :
                       k \in {r \in Records : uploadStore[r].status = "in_progress"}}
    IN  /\ uploadStore' = [k \in Keys |->
              IF k \in tracked
              THEN trackUploadProgress(uploadStore, k)[k]
              ELSE uploadStore[k]]
        /\ UNCHANGED <<chunksDir, finalDir, issued, aborted, seenDone,
                 svcVars, refused, extVars>>

\* stats.mtimeMs < thirtyMinutesAgo
IsStale(file) == file.age > StaleThreshold

\* cleanupIncompleteUploads, the 30 min cleanup job
cleanupIncompleteUploads ==
    /\ chunksDir' = [f \in ChunkNames |->
          IF chunksDir[f] # NoFile /\ IsStale(chunksDir[f])
          THEN NoFile ELSE chunksDir[f]]
    /\ UNCHANGED <<uploadStore, finalDir, issued, aborted, seenDone,
                 svcVars, refused, extVars>>

\* one unit of time passes
Older(age) == IF age < MaxAge THEN age + 1 ELSE age

Tick ==
    /\ chunksDir' = [f \in ChunkNames |->
          IF chunksDir[f] = NoFile THEN NoFile
          ELSE [chunksDir[f] EXCEPT !.age = Older(@)]]
    /\ uploadStore' = [k \in Keys |->
          IF uploadStore[k] = NoRec THEN NoRec
          ELSE [uploadStore[k] EXCEPT !.idle = Older(@)]]
    /\ UNCHANGED <<finalDir, issued, aborted, seenDone,
                 svcVars, refused, extVars>>

\* ------------------------------------------------------------ restart
\* file.split('.')[0] of the names of FileNames
FileStem(file) == IF file = "a.jpg" THEN <<"a">> ELSE Undefined

\* the record initializeUploadStore builds for a file of FINAL_DIR: it has no
\* uploadId, totalChunks or uploadedChunks field
RestoredRecord(file, stats) ==
    [hasId |-> FALSE, fileName |-> file, fileSize |-> Len(stats.data),
     status |-> "completed"]

\* initializeUploadStore() on the empty uploadStore of a new process
initializeUploadStore(final) ==
    [k \in Keys |->
        IF \E file \in FileNames : final[file] # NoFile /\ FileStem(file) = k
        THEN LET file == CHOOSE n \in FileNames :
                             final[n] # NoFile /\ FileStem(n) = k
             IN  RestoredRecord(file, final[file])
        ELSE NoRec]

\* the process stops and starts again: uploadStore is a new empty object that
\* initializeUploadStore fills, the directories are as the old process left
\* them, the clients keep the handles init gave them
Restart ==
    /\ uploadStore' = initializeUploadStore(finalDir)
    /\ UNCHANGED <<chunksDir, finalDir, issued, aborted, seenDone,
                 svcVars, refused, extVars>>

\* ------------------------------------------------------------ UploadService
\* CHUNK_SIZE, 1024 * 1024 bytes, in units of half a megabyte
CHUNK_SIZE == 2

\* the chunkData the callers pass: a Buffer of CHUNK_SIZE bytes, a Buffer of
\* half of it, a string of CHUNK_SIZE characters
ChunkDatas ==
    {[kind |-> "Buffer", bytes |-> <<0, 0>>],
     [kind |-> "Buffer", bytes |-> <<0>>],
     [kind |-> "string", bytes |-> <<0, 0>>]}

\* JSON.stringify(chunkData): a Buffer has a toJSON that gives
\* {type: 'Buffer', data: [...]}, a string is quoted
JSONstringify(v) ==
    IF v.kind = "Buffer"
    THEN [json |-> [kind |-> "object", bytes |-> v.bytes]]
    ELSE [json |-> v]

\* JSON.parse(data)
JSONparse(text) == text.json

\* redisService.getChunk(uploadId, chunkIndex): data ? JSON.parse(data) : null
getChunk(keys, uploadId, chunkIndex) ==
    IF keys[uploadId][chunkIndex] = NoFile THEN NoFile
    ELSE JSONparse(keys[uploadId][chunkIndex])

\* (uploadedChunks / totalChunks) * 100, kept as a fraction
Percent(uploadedChunks, totalChunks) ==
    [num |-> uploadedChunks * 100, den |-> totalChunks]

\* uploadService.initUpload(params)
\* redisService.incrementUploadStats({activeUploads}): incrBy is queued only
\* for a number that is truthy
incrementUploadStats(st, active) ==
    IF active # 0
    THEN [st EXCEPT !.activeUploads = @ + active]
    ELSE st

initUpload(uploadId, fileName, fileSize, totalChunks) ==
    /\ metadata[uploadId] = NoRec
    /\ metadata' = [metadata EXCEPT ![uploadId] =
          [fileName |-> fileName, fileSize |-> fileSize,
           totalChunks |-> totalChunks, status |-> "initialized",
           uploadedChunks |-> 0, hasPath |-> FALSE]]
    /\ progress' = [progress EXCEPT ![uploadId] = Percent(0, totalChunks)]
    /\ uploadStats' = incrementUploadStats(uploadStats, 1)
    /\ UNCHANGED <<chunkKeys, completedDir, calls, acks>>

\* uploadChunk(params) up to its first await: getUploadMetadata, and the throw
\* of 'Upload not found'.  The caller passes the totalChunks it declared
uploadChunk_getUploadMetadata(c, uploadId, chunkIndex, chunkData) ==
    /\ calls[c] = IdleCall
    /\ acks[uploadId][chunkIndex] < MaxAcks
    /\ uploadStats.activeUploads > -MaxDrift
    /\ metadata[uploadId] # NoRec
          => metadata[uploadId].uploadedChunks < MaxUploaded
    /\ calls' = IF metadata[uploadId] = NoRec
                THEN calls
                ELSE [calls EXCEPT ![c] =
                        [pc |-> "trackChunk", uploadId |-> uploadId,
                         chunkIndex |-> chunkIndex,
                         totalChunks |-> metadata[uploadId].totalChunks,
                         chunkData |-> chunkData,
                         metadata |-> metadata[uploadId]]]
    /\ UNCHANGED <<metadata, progress, chunkKeys, completedDir, acks,
                   uploadStats>>

\* "Save chunk to Redis": redisService.trackChunk resolves
uploadChunk_trackChunk(c) ==
    /\ calls[c].pc = "trackChunk"
    /\ chunkKeys' = [chunkKeys EXCEPT
          ![calls[c].uploadId][calls[c].chunkIndex] =
              JSONstringify(calls[c].chunkData)]
    /\ calls' = [calls EXCEPT ![c].pc = "update"]
    /\ UNCHANGED <<metadata, progress, completedDir, acks, uploadStats>>

\* uploadChunk with "Update progress" moved before "Save chunk to Redis",
\* when trackChunk rejects
trackChunkThrows_afterUpdate(c, stored) ==
    /\ calls[c].pc = "trackChunk"
    /\ metadata' = [metadata EXCEPT ![calls[c].uploadId] =
          [calls[c].metadata EXCEPT !.uploadedChunks = @ + 1]]
    /\ calls' = [calls EXCEPT ![c] = IdleCall]
    /\ UNCHANGED <<progress, chunkKeys, completedDir, acks, uploadStats>>

\* redisService.trackChunk rejects, in client.set (nothing stored) or in
\* client.expire (the key is set): uploadChunk rejects with that error
uploadChunk_trackChunkThrows(c, stored) ==
    /\ calls[c].pc = "trackChunk"
    /\ chunkKeys' = IF stored
                    THEN [chunkKeys EXCEPT
                            ![calls[c].uploadId][calls[c].chunkIndex] =
                                JSONstringify(calls[c].chunkData)]
                    ELSE chunkKeys
    /\ calls' = [calls EXCEPT ![c] = IdleCall]
    /\ UNCHANGED <<metadata, progress, completedDir, acks, uploadStats>>

\* the call resolves: its slot is free again
Resolved(c) ==
    /\ calls' = [calls EXCEPT ![c] = IdleCall]
    /\ acks' = [acks EXCEPT ![calls[c].uploadId][calls[c].chunkIndex] = @ + 1]

\* "Update progress": trackUploadProgress and trackUploadMetadata with the
\* metadata the call read at its start; the call resolves here unless
\* uploadedChunks === totalChunks
uploadChunk_update(c) ==
    LET call == calls[c]
        uploadedChunks == call.metadata.uploadedChunks + 1
    IN  /\ call.pc = "update"
        /\ progress' = [progress EXCEPT ![call.uploadId] =
              Percent(uploadedChunks, call.totalChunks)]
        /\ metadata' = [metadata EXCEPT ![call.uploadId] =
              [call.metadata EXCEPT !.uploadedChunks = uploadedChunks]]
        /\ IF uploadedChunks = call.totalChunks
           THEN /\ calls' = [calls EXCEPT ![c].pc = "assembleFile"]
                /\ UNCHANGED acks
           ELSE Resolved(c)
        /\ UNCHANGED <<chunkKeys, completedDir, uploadStats>>

\* writeStream.write(chunkData) accepts a string, a Buffer or a Uint8Array and
\* throws ERR_INVALID_ARG_TYPE for any other value
Writable(chunkData) == chunkData # NoFile /\ chunkData.kind \in {"string", "Buffer"}

\* what the loop of assembleFile has written when it ends or throws
RECURSIVE Assembled(_, _, _, _)
Assembled(keys, uploadId, i, totalChunks) ==
    IF i >= totalChunks \/ ~Writable(getChunk(keys, uploadId, i))
    THEN <<>>
    ELSE getChunk(keys, uploadId, i).bytes
           \o Assembled(keys, uploadId, i + 1, totalChunks)

\* the loop of assembleFile meets no missing chunk and no throw of write
AssembleOk(keys, uploadId, totalChunks) ==
    \A i \in 0..(totalChunks - 1) : Writable(getChunk(keys, uploadId, i))

\* assembleFile(uploadId, metadata), with the metadata the call read at its
\* start: the file, then status 'completed' and the path, or in the catch
\* status 'failed' and the error thrown again
uploadChunk_assembleFile(c) ==
    LET call == calls[c]
        ok == AssembleOk(chunkKeys, call.uploadId, call.metadata.totalChunks)
    IN  /\ call.pc = "assembleFile"
        /\ completedDir' = [completedDir EXCEPT ![call.uploadId] =
              [data |-> Assembled(chunkKeys, call.uploadId, 0,
                                  call.metadata.totalChunks)]]
        /\ metadata' = [metadata EXCEPT ![call.uploadId] =
              IF ok
              THEN [call.metadata EXCEPT !.status = "completed",
                                         !.hasPath = TRUE]
              ELSE [call.metadata EXCEPT !.status = "failed"]]
        /\ IF ok
           THEN Resolved(c)
           ELSE /\ calls' = [calls EXCEPT ![c] = IdleCall]
                /\ UNCHANGED acks
        /\ uploadStats' = incrementUploadStats(uploadStats, -1)
        /\ UNCHANGED <<progress, chunkKeys>>

\* uploadService.getUploadStatus(uploadId): {...metadata, progress}
getUploadStatus(md, pr, uploadId) ==
    IF md[uploadId] = NoRec THEN NoRec
    ELSE [status |-> md[uploadId].status,
          uploadedChunks |-> md[uploadId].uploadedChunks,
          totalChunks |-> md[uploadId].totalChunks,
          progress |-> pr[uploadId]]

\* uploadService.resumeUpload(uploadId)
resumeUpload(md, pr, uploadId) ==
    IF md[uploadId] = NoRec THEN NoRec
    ELSE [uploadedChunks |-> md[uploadId].uploadedChunks,
          totalChunks |-> md[uploadId].totalChunks,
          progress |-> pr[uploadId]]

\* uploadService: initUpload and the steps of the uploadChunk calls
NextService ==
    \/ \E id \in Uuids, n \in FileNames, s \in FileSizes, t \in Totals :
          initUpload(id, n, s, t) /\ UNCHANGED srvVars
    \/ \E c \in Calls, id \in Uuids, i \in Indices, d \in ChunkDatas :
          uploadChunk_getUploadMetadata(c, id, i, d) /\ UNCHANGED srvVars
    \/ \E c \in Calls : uploadChunk_trackChunk(c) /\ UNCHANGED srvVars
    \/ \E c \in Calls, stored \in BOOLEAN :
          uploadChunk_trackChunkThrows(c, stored) /\ UNCHANGED srvVars
    \/ \E c \in Calls : uploadChunk_update(c) /\ UNCHANGED srvVars
    \/ \E c \in Calls : uploadChunk_assembleFile(c) /\ UNCHANGED srvVars

SpecService == Init /\ [][NextService]_vars

\* the handlers and the tracking job, with the clock standing still; a client
\* that uses an id init did not issue sends one-chunk uploads of one payload
ForeignPayloads == {<<1>>}

Next ==
    \/ \E id \in Uuids, n \in FileNames, s \in FileSizes, t \in Totals :
          InitUpload(id, n, s, t)
    \/ \E id \in issued, i \in Indices, t \in Totals, d \in Payloads, n \in FileNames :
          ChunkUpload(id, i, t, d, n)
    \/ \E id \in ForeignIds, i \in Indices, d \in ForeignPayloads, n \in FileNames :
          ChunkUpload(id, i, 1, d, n)
    \/ \E id \in Known : CompleteUpload(id)
    \/ \E id \in Known : GetStatus(id)
    \/ \E id \in Known : DeleteUpload(id)
    \/ TrackingJob

Spec == Init /\ [][Next]_vars

\* the cleanup job and the clock, with clients that upload one payload to the
\* ids init issued
ReaperPayloads == {<<1>>}

NextReaper ==
    \/ \E id \in Uuids, n \in FileNames, s \in FileSizes, t \in Totals :
          InitUpload(id, n, s, t)
    \/ \E id \in issued, i \in Indices, d \in ReaperPayloads, n \in FileNames :
          ChunkUpload(id, i, MaxTotal, d, n)
    \/ \E id \in issued : CompleteUpload(id)
    \/ \E id \in issued : DeleteUpload(id)
    \/ TrackingJob
    \/ cleanupIncompleteUploads
    \/ Tick

SpecReaper == Init /\ [][NextReaper]_vars

\* the handlers and a restart of the process, with clients that upload one
\* payload to the ids init issued
NextRestart ==
    \/ \E id \in Uuids, n \in FileNames, s \in FileSizes, t \in Totals :
          InitUpload(id, n, s, t)
    \/ \E id \in issued, i \in Indices, d \in ReaperPayloads, n \in FileNames :
          ChunkUpload(id, i, MaxTotal, d, n)
    \/ \E id \in issued : CompleteUpload(id)
    \/ \E id \in issued : GetStatus(id)
    \/ \E id \in issued : DeleteUpload(id)
    \/ TrackingJob
    \/ Restart

SpecRestart == Init /\ [][NextRestart]_vars

\* a process runs the routes of server.ts or drives uploadService, never both
\* (server.ts does not import the service): the routes are used while the
\* service has no session, the service while the routes have issued no handle
ServiceUnused == \A id \in Uuids : metadata[id] = NoRec
RoutesUnused == issued = {}

\* one client at a time, and the persistence step of a chunk may fail: the
\* routes init and chunk with a writeFile that rejects, and uploadService with
\* one call in flight and a trackChunk that rejects
NextFault ==
    \/ \E id \in Uuids, n \in FileNames, s \in FileSizes, t \in Totals :
          ServiceUnused /\ InitUpload(id, n, s, t)
    \/ \E id \in issued, i \in Indices, d \in ReaperPayloads, n \in FileNames :
          ChunkUpload(id, i, MaxTotal, d, n)
    \/ \E id \in issued, i \in Indices, d \in Payloads, opened \in BOOLEAN :
          \E written \in 0..(Len(d) - 1) :
              ChunkWriteFails(id, i, d, opened, written)
    \/ \E id \in Uuids, n \in FileNames, s \in FileSizes, t \in Totals :
          RoutesUnused /\ initUpload(id, n, s, t) /\ UNCHANGED srvVars
    \/ \E id \in Uuids, i \in Indices, d \in ChunkDatas :
          uploadChunk_getUploadMetadata(1, id, i, d) /\ UNCHANGED srvVars
    \/ uploadChunk_trackChunk(1) /\ UNCHANGED srvVars
    \/ \E stored \in BOOLEAN :
          uploadChunk_trackChunkThrows(1, stored) /\ UNCHANGED srvVars
    \/ uploadChunk_update(1) /\ UNCHANGED srvVars
    \/ uploadChunk_assembleFile(1) /\ UNCHANGED srvVars

SpecFault == Init /\ [][NextFault]_vars

\* the chunk route behind its validators, with init and complete
NextValidator ==
    \/ \E id \in Uuids, n \in FileNames, s \in FileSizes, t \in Totals :
          InitUpload(id, n, s, t)
    \/ \E req \in Requests(issued) : ChunkRequest(req)
    \/ \E id \in issued : CompleteUpload(id)

SpecValidator == Init /\ [][NextValidator]_vars

\* ------------------------------------------------------------ writes in flight
\* the chunk route and DELETE with the await of the write made visible: a
\* chunk request is a step up to `await fs.promises.writeFile` and a step
\* from the end of the write to the response
RECURSIVE Sum(_, _)
Sum(f, S) ==
    IF S = {} THEN 0
    ELSE LET x == CHOOSE y \in S : TRUE IN f[x] + Sum(f, S \ {x})

\* the writes of the chunk route that are in flight
InFlight == Sum(writing, WriteJobs)

\* the request has passed the validators and called writeFile
ChunkWriteBegin(job) ==
    /\ InFlight < MaxInFlight
    /\ writing' = [writing EXCEPT ![job] = @ + 1]
    /\ UNCHANGED <<uploadStore, chunksDir, finalDir, issued, aborted,
                   seenDone, svcVars, refused, rateVars, mobileVars,
                   overtaken>>

\* the write has finished: the file is there, and the handler runs on from
\* "Update progress" to res.json
ChunkWritten(job) ==
    /\ writing[job] > 0
    /\ uploadStore[job.uploadId] # NoRec
          => uploadStore[job.uploadId].uploadedChunks < MaxUploaded
    /\ chunksDir' =
          [chunksDir EXCEPT ![ChunkName(job.uploadId, job.chunkIndex)] =
              [data |-> WriteBuffer, age |-> 0]]
    /\ uploadStore' = ChunkProgress(uploadStore, job.uploadId, job.chunkIndex,
                                    job.totalChunks, Len(WriteBuffer),
                                    "a.jpg")
    /\ writing' = [writing EXCEPT ![job] = @ - 1]
    /\ overtaken' = IF writing[job] = 1 THEN overtaken \ {job} ELSE overtaken
    /\ UNCHANGED <<finalDir, issued, aborted, seenDone, svcVars, refused,
                   rateVars, mobileVars>>

\* DELETE /api/upload/:uploadId while chunk requests wait for their writes
DeleteDuringWrites(uploadId) ==
    LET code == DeleteCode(uploadStore, uploadId)
    IN  /\ chunksDir' =
              IF code = 200
              THEN [f \in ChunkNames |->
                       IF f \in relevantChunks(chunksDir, uploadId)
                       THEN NoFile ELSE chunksDir[f]]
              ELSE chunksDir
        /\ uploadStore' =
              IF code = 200
              THEN [uploadStore EXCEPT ![uploadId] = NoRec]
              ELSE uploadStore
        /\ aborted' = IF code = 200 THEN aborted \cup {uploadId} ELSE aborted
        /\ overtaken' =
              IF code = 200
              THEN overtaken \cup {job \in WriteJobs :
                                      /\ job.uploadId = uploadId
                                      /\ writing[job] > 0}
              ELSE overtaken
        /\ UNCHANGED <<finalDir, issued, seenDone, svcVars, refused,
                       rateVars, mobileVars, writing>>

NextInFlight ==
    \/ \E id \in Uuids, n \in FileNames, s \in FileSizes, t \in Totals :
          InitUpload(id, n, s, t)
    \/ \E job \in WriteJobs : job.uploadId \in issued /\ ChunkWriteBegin(job)
    \/ \E job \in WriteJobs : ChunkWritten(job)
    \/ \E id \in issued : DeleteDuringWrites(id)

SpecInFlight == Init /\ [][NextInFlight]_vars

\* ------------------------------------------------------------ rate limits
\* middleware/security.ts.  The clocks of the limiters count in units of 30
\* seconds; an entry carries its age and is dropped when its window is over.
points == 100
duration == 2
max == 1000
windowMs == 2

\* RateLimiterMemory.consume(key): one more point in the window of the key,
\* a new window when the key has none (the count stops one above points)
consume(storage, key) ==
    IF storage[key] = NoRec
    THEN [consumedPoints |-> 1, age |-> 0]
    ELSE [storage[key] EXCEPT
             !.consumedPoints = IF @ > points THEN @ ELSE @ + 1]

\* the store of express-rate-limit: one more hit in the window of the key
\* (the count stops one above max)
increment(store, key) ==
    IF store[key] = NoRec
    THEN [totalHits |-> 1, age |-> 0]
    ELSE [store[key] EXCEPT !.totalHits = IF @ > max THEN @ ELSE @ + 1]

totalHits(store, key) ==
    IF store[key] = NoRec THEN 0 ELSE store[key].totalHits

\* a request to a route under /api/upload from address ip passes
\* app.use(rateLimiterMiddleware) and then app.use(uploadLimiter); each
\* answers 429 itself or calls next(), and the route runs after both
UploadRequest(ip) ==
    LET rec == consume(rateLimiter, ip)
        hit == increment(uploadLimiter, ip)
    IN  /\ rateLimiter' = [rateLimiter EXCEPT ![ip] = rec]
        /\ IF rec.consumedPoints > points
           THEN /\ answered' = {[ip |-> ip, status |-> 429,
                                 by |-> "rateLimiterMiddleware",
                                 consumedPoints |-> rec.consumedPoints,
                                 totalHits |-> totalHits(uploadLimiter, ip),
                                 handler |-> FALSE]}
                /\ UNCHANGED uploadLimiter
           ELSE /\ uploadLimiter' = [uploadLimiter EXCEPT ![ip] = hit]
                /\ answered' = {[ip |-> ip,
                                 status |-> IF hit.totalHits > max
                                            THEN 429 ELSE CalledNext,
                                 by |-> "uploadLimiter",
                                 consumedPoints |-> rec.consumedPoints,
                                 totalHits |-> hit.totalHits,
                                 handler |-> hit.totalHits <= max]}
        /\ UNCHANGED <<backendVars, writeVars, mobileVars>>

\* an entry one unit older, dropped at the end of its window
Aged(rec, window) ==
    IF rec = NoRec \/ rec.age + 1 >= window
    THEN NoRec
    ELSE [rec EXCEPT !.age = @ + 1]

\* 30 seconds pass
RateTick ==
    /\ rateLimiter' = [ip \in Clients |-> Aged(rateLimiter[ip], duration)]
    /\ uploadLimiter' = [ip \in Clients |-> Aged(uploadLimiter[ip], windowMs)]
    /\ UNCHANGED <<backendVars, writeVars, mobileVars, answered>>

NextRate ==
    \/ \E ip \in Clients : UploadRequest(ip)
    \/ RateTick

SpecRate == Init /\ [][NextRate]_vars

\* ------------------------------------------------------------ mobile manager
\* UploadManager.tsx.  A tap, a timer and the continuation of a loop after an
\* await are tasks; React commits the state updates of a task when the task
\* ends, so the functions a task runs see the state of the render they were
\* created in.  A loop calls the onStateChange of the render in which
\* start() was called.

\* the state that handleStateChange and startNextUpload of the current
\* render close over
Render ==
    [files |-> files, uploadStates |-> uploadStates,
     activeUploads |-> activeUploads]

\* startNextUpload of render r: the files it appends to activeUploads and
\* starts.  `activeUploads.length < 3` in the loop condition reads the array
\* of the render, which the loop does not change
toUpload(r) ==
    {f \in r.files : r.uploadStates[f] \notin {"uploading", "completed"}}

startNextUpload(r) ==
    IF Sum(r.activeUploads, Uris) >= 3
    THEN {}
    ELSE {f \in toUpload(r) : r.activeUploads[f] = 0}

\* uploadRefs.current[uri].start() for the files of S: startUpload of each
\* item begins at the currentChunk of the item, with a fresh controller
Started(S) ==
    SetToBag({[uri |-> f, render |-> Render, i |-> items[f].currentChunk] :
                 f \in S})

ItemsStarted(its, S) ==
    [f \in Uris |->
        IF f \in S
        THEN [its[f] EXCEPT !.status = "uploading", !.canceled = FALSE]
        ELSE its[f]]

\* the useEffect on [files, uploadStates], run on the state just committed
useEffect(fs, states, upl, active) ==
    LET allCompleted == fs # {} /\ \A f \in fs : states[f] = "completed"
        reset == \/ (~upl /\ Sum(active, Uris) > 0) \/ allCompleted
                 \/ (~upl /\ \E f \in fs : states[f] # "completed")
    IN  IF reset
        THEN [uploading |-> FALSE, activeUploads |-> NoActive]
        ELSE [uploading |-> upl, activeUploads |-> active]

\* handleStateChange(uri, state) of render r, with the commit and the effect
\* that follow; the item of uri is left with status st
handleStateChange(r, uri, st, its) ==
    LET S == IF st \in {"completed", "error"} THEN startNextUpload(r) ELSE {}
        states == [uploadStates EXCEPT ![uri] = st]
        filtered == IF st \in {"completed", "error", "canceled"}
                    THEN [activeUploads EXCEPT ![uri] = 0]
                    ELSE activeUploads
        active == [f \in Uris |-> filtered[f] + IF f \in S THEN 1 ELSE 0]
        fs == IF st = "canceled" THEN files \ {uri} ELSE files
        eff == useEffect(fs, states, uploading, active)
    IN  /\ uploadStates' = states
        /\ files' = fs
        /\ uploading' = eff.uploading
        /\ activeUploads' = eff.activeUploads
        /\ items' = ItemsStarted(its, S)

\* the parent passes the files the user has selected, n of them, before
\* anything is started; the effect leaves the initial state as it is
FilesSelected(n) ==
    /\ files = {}
    /\ events = 0
    /\ files' = 1..n
    /\ uploading' = useEffect(1..n, uploadStates, uploading,
                              activeUploads).uploading
    /\ activeUploads' = useEffect(1..n, uploadStates, uploading,
                                  activeUploads).activeUploads
    /\ UNCHANGED <<uploadStates, timers, loops, items, events>>
    /\ UNCHANGED <<backendVars, rateVars, writeVars, itemVars>>

\* the START UPLOAD button, enabled unless isDisabled
handleStartAll ==
    /\ events < MaxEvents
    /\ files # {}
    /\ ~(uploading /\ Sum(activeUploads, Uris) > 0)
    /\ uploading' = TRUE
    /\ activeUploads' = NoActive
    /\ timers' = timers (+) SetToBag({Render})
    /\ events' = events + 1
    /\ UNCHANGED <<files, uploadStates, loops, items>>
    /\ UNCHANGED <<backendVars, rateVars, writeVars, itemVars>>

\* the timer of handleStartAll fires: startNextUpload of the render of the tap
TimerFires(r) ==
    LET S == startNextUpload(r)
    IN  /\ BagIn(r, timers)
        /\ timers' = timers (-) SetToBag({r})
        /\ activeUploads' =
              [f \in Uris |-> activeUploads[f] + IF f \in S THEN 1 ELSE 0]
        /\ loops' = loops (+) Started(S)
        /\ items' = ItemsStarted(items, S)
        /\ UNCHANGED <<files, uploadStates, uploading, events>>
        /\ UNCHANGED <<backendVars, rateVars, writeVars, itemVars>>

\* the loop l ends its task with onStateChange(st): the loop is over, and
\* the loops that startNextUpload of its render starts run
LoopEnds(l, st, its) ==
    /\ handleStateChange(l.render, l.uri, st, its)
    /\ loops' = (loops (-) SetToBag({l}))
                   (+) (IF st \in {"completed", "error"}
                        THEN Started(startNextUpload(l.render))
                        ELSE EmptyBag)
    /\ events' = events + 1
    /\ UNCHANGED timers
    /\ UNCHANGED <<backendVars, rateVars, writeVars, itemVars>>

\* uploadChunk(i) of loop l resolves: setCurrentChunk(i + 1) and
\* onStateChange(uploading); after the last chunk onStateChange(completed),
\* before a further chunk the check of controller.current.canceled
ChunkDone(l) ==
    LET its == [items EXCEPT ![l.uri].currentChunk = l.i + 1]
    IN  /\ BagIn(l, loops)
        /\ events < MaxEvents
        /\ l.i < MaxChunks
        /\ IF l.i + 1 = MaxChunks
           THEN LoopEnds(l, "completed",
                         [its EXCEPT ![l.uri].status = "completed"])
           ELSE IF items[l.uri].canceled
           THEN LoopEnds(l, "canceled",
                         [its EXCEPT ![l.uri].status = "canceled"])
           ELSE /\ handleStateChange(l.render, l.uri, "uploading", its)
                /\ loops' = (loops (-) SetToBag({l}))
                               (+) SetToBag({[l EXCEPT !.i = l.i + 1]})
                /\ events' = events + 1
                /\ UNCHANGED timers
                /\ UNCHANGED <<backendVars, rateVars, writeVars, itemVars>>

\* start() of an item whose currentChunk is totalChunks: the loop body is
\* skipped and onStateChange(completed) is called at once
CompletedAtOnce(l) ==
    /\ BagIn(l, loops)
    /\ events < MaxEvents
    /\ l.i >= MaxChunks
    /\ LoopEnds(l, "completed", [items EXCEPT ![l.uri].status = "completed"])

\* uploadChunk(i) of loop l rejects for the third time
ChunkFails(l) ==
    /\ BagIn(l, loops)
    /\ events < MaxEvents
    /\ l.i < MaxChunks
    /\ LoopEnds(l, "error", [items EXCEPT ![l.uri].status = "error"])

\* uploadChunk(i) of loop l rejects for the first or second time, and after
\* the backoff the loop finds controller.current.canceled set
ChunkFailsCanceled(l) ==
    /\ BagIn(l, loops)
    /\ events < MaxEvents
    /\ l.i < MaxChunks
    /\ items[l.uri].canceled
    /\ LoopEnds(l, "canceled", [items EXCEPT ![l.uri].status = "canceled"])

\* the Cancel button of an item, shown while its status is uploading:
\* cancelUpload calls the onStateChange of the current render
cancelUpload(f) ==
    /\ events < MaxEvents
    /\ f \in files
    /\ items[f].status = "uploading"
    /\ handleStateChange(Render, f, "canceled",
                         [items EXCEPT ![f].canceled = TRUE,
                                       ![f].status = "canceled"])
    /\ events' = events + 1
    /\ UNCHANGED <<timers, loops>>
    /\ UNCHANGED <<backendVars, rateVars, writeVars, itemVars>>

NextManager ==
    \/ \E n \in 1..MaxFiles : FilesSelected(n)
    \/ handleStartAll
    \/ \E r \in BagToSet(timers) : TimerFires(r)
    \/ \E l \in BagToSet(loops) : ChunkDone(l)
    \/ \E l \in BagToSet(loops) : CompletedAtOnce(l)
    \/ \E l \in BagToSet(loops) : ChunkFails(l)
    \/ \E l \in BagToSet(loops) : ChunkFailsCanceled(l)
    \/ \E f \in Uris : cancelUpload(f)

SpecManager == Init /\ [][NextManager]_vars

\* ------------------------------------------------------------ mobile item
\* UploadItem.tsx: the buttons of one item and the loops of startUpload.  A
\* loop is at the await of uploadChunk(i) ("upload") or in the polling of
\* `while (controller.current.paused)` ("paused")

\* startUpload(): status uploading, a fresh controller, and a loop from the
\* currentChunk of the render; with no chunk left the loop body is skipped
startUpload ==
    /\ controller' = [paused |-> FALSE, canceled |-> FALSE]
    /\ IF currentChunk < MaxChunks
       THEN /\ status' = "uploading"
            /\ running' = running (+) SetToBag({[i |-> currentChunk,
                                                  pc |-> "upload"]})
       ELSE /\ status' = "completed"
            /\ UNCHANGED running

\* a tap on a button of the item
Tap ==
    /\ events < MaxEvents
    /\ events' = events + 1
    /\ UNCHANGED <<files, uploadStates, uploading, activeUploads, timers,
                   loops, items>>
    /\ UNCHANGED <<backendVars, rateVars, writeVars>>

\* start() through the ref, for an item that has not been started
ItemStart ==
    /\ status = "idle"
    /\ startUpload
    /\ UNCHANGED currentChunk
    /\ Tap

\* pauseUpload: the Pause button, shown while status is uploading
ItemPause ==
    /\ status = "uploading"
    /\ controller' = [controller EXCEPT !.paused = TRUE]
    /\ status' = "paused"
    /\ UNCHANGED <<currentChunk, running>>
    /\ Tap

\* resumeUpload: the Resume button, shown while status is paused:
\* controller.paused is
\* cleared and startUpload() is called
ItemResume ==
    /\ status = "paused"
    /\ startUpload
    /\ UNCHANGED currentChunk
    /\ Tap

\* the Retry button, shown while status is error: onPress={startUpload}
ItemRetry ==
    /\ status = "error"
    /\ startUpload
    /\ UNCHANGED currentChunk
    /\ Tap

\* cancelUpload: the Cancel button, shown while status is uploading
ItemCancel ==
    /\ status = "uploading"
    /\ controller' = [controller EXCEPT !.canceled = TRUE]
    /\ status' = "canceled"
    /\ UNCHANGED <<currentChunk, running>>
    /\ Tap

\* the continuation of a loop after an await
LoopStep == UNCHANGED <<mgrVars, backendVars, rateVars, writeVars>>

\* uploadChunk(i) of loop l resolves: setCurrentChunk(i + 1), then the end
\* of the loop, the cancel check or the pause check of the next round
ItemChunkDone(l) ==
    /\ BagIn(l, running)
    /\ l.pc = "upload"
    /\ currentChunk' = l.i + 1
    /\ IF l.i + 1 = MaxChunks
       THEN /\ status' = "completed"
            /\ running' = running (-) SetToBag({l})
       ELSE IF controller.canceled
       THEN /\ status' = "canceled"
            /\ running' = running (-) SetToBag({l})
       ELSE /\ running' = (running (-) SetToBag({l}))
                 (+) SetToBag({[i |-> l.i + 1,
                                pc |-> IF controller.paused
                                       THEN "paused" ELSE "upload"]})
            /\ UNCHANGED status
    /\ UNCHANGED controller
    /\ LoopStep

\* a round of the polling finds controller.current.paused cleared
PauseOver(l) ==
    /\ BagIn(l, running)
    /\ l.pc = "paused"
    /\ ~controller.paused
    /\ running' = (running (-) SetToBag({l}))
                     (+) SetToBag({[l EXCEPT !.pc = "upload"]})
    /\ UNCHANGED <<status, controller, currentChunk>>
    /\ LoopStep

\* uploadChunk(i) of loop l rejects for the third time
ItemChunkFails(l) ==
    /\ BagIn(l, running)
    /\ l.pc = "upload"
    /\ status' = "error"
    /\ running' = running (-) SetToBag({l})
    /\ UNCHANGED <<controller, currentChunk>>
    /\ LoopStep

\* uploadChunk(i) of loop l rejects for the first or second time, and after
\* the backoff the loop finds controller.current.canceled set
ItemChunkFailsCanceled(l) ==
    /\ BagIn(l, running)
    /\ l.pc = "upload"
    /\ controller.canceled
    /\ status' = "canceled"
    /\ running' = running (-) SetToBag({l})
    /\ UNCHANGED <<controller, currentChunk>>
    /\ LoopStep

NextItem ==
    \/ ItemStart
    \/ ItemPause
    \/ ItemResume
    \/ ItemRetry
    \/ ItemCancel
    \/ \E l \in BagToSet(running) : ItemChunkDone(l)
    \/ \E l \in BagToSet(running) : PauseOver(l)
    \/ \E l \in BagToSet(running) : ItemChunkFails(l)
    \/ \E l \in BagToSet(running) : ItemChunkFailsCanceled(l)

SpecItem == Init /\ [][NextItem]_vars

\* ------------------------------------------------------------ properties
Terminal == {"completed", "failed", "aborted"}

\* chunk 0 .. n-1 of uploadId, joined in ascending index order
RECURSIVE InIndexOrder(_, _, _)
InIndexOrder(dir, uploadId, n) ==
    IF n = 0 THEN <<>>
    ELSE InIndexOrder(dir, uploadId, n - 1) \o dir[ChunkName(uploadId, n - 1)].data

\* C1: the received-chunk count of a session never exceeds its declared
\* totalChunks.
C1_CountWithinTotal ==
    \A id \in Keys :
        uploadStore[id] # NoRec
            => uploadStore[id].uploadedChunks <= uploadStore[id].totalChunks

\* C2: a session whose status is completed has received every chunk index
\* 0..totalChunks-1 and has an assembled final object.
C2_CompletedIsAssembled ==
    \A id \in Keys :
        (uploadStore[id] # NoRec /\ uploadStore[id].status = "completed")
            => /\ 0..(uploadStore[id].totalChunks - 1) \subseteq uploadStore[id].received
               /\ uploadStore[id].assembled
               /\ finalDir[uploadStore[id].fileName] # NoFile

\* C3: a second putChunk for a (handle, index) that was already acknowledged
\* is acknowledged too, leaves one staging chunk for the pair and does not
\* advance the received count.
C3_DuplicateCountsOnce ==
    [][\A id \in Known, i \in Indices, t \in Totals, d \in Payloads, n \in FileNames :
          ( /\ uploadStore[id] # NoRec
            /\ i \in uploadStore[id].received
            /\ ChunkUpload(id, i, t, d, n) )
          => /\ ChunkCode(uploadStore, id) = 200
             /\ chunksDir'[ChunkName(id, i)] # NoFile
             /\ uploadStore'[id].uploadedChunks = uploadStore[id].uploadedChunks]_vars

\* C4: when complete succeeds, the final object is the session's staged
\* chunks 0..totalChunks-1 joined in ascending index order, and its length is
\* the declared fileSize.
C4_FinalIsDeclaredFile ==
    [][\A id \in Known :
          (CompleteCode(uploadStore, chunksDir, id) = 200 /\ CompleteUpload(id))
          => LET info == uploadStore[id]
             IN  /\ finalDir'[info.fileName] # NoFile
                 /\ finalDir'[info.fileName].data =
                        InIndexOrder(chunksDir, id, info.totalChunks)
                 /\ Len(finalDir'[info.fileName].data) = info.fileSize]_vars

\* C5: once DELETE has succeeded for a handle, no putChunk for it is accepted
\* any more and no staging chunk of it exists.
C5_NoChunkAfterAbort ==
    [][\A id \in aborted :
          /\ \A i \in Indices, t \in Totals, d \in Payloads, n \in FileNames :
                ChunkUpload(id, i, t, d, n) => ChunkCode(uploadStore, id) # 200
          /\ OwnChunks(chunksDir', id) = {}]_vars

\* C6: a cleanup run removes no staging chunk and not the record of a session
\* that accepted a chunk less than the stale threshold ago.
C6_ReaperSparesLive ==
    [][cleanupIncompleteUploads =>
          \A id \in Records :
              uploadStore[id].idle < StaleThreshold
                  => /\ \A i \in Indices :
                           chunksDir'[ChunkName(id, i)] = chunksDir[ChunkName(id, i)]
                     /\ uploadStore'[id] = uploadStore[id]]_vars

\* C7: a cleanup run that meets a non-terminal session idle for longer than
\* the stale threshold aborts or removes the session and deletes all of its
\* staging chunks.
C7_ReaperAbortsStale ==
    [][cleanupIncompleteUploads =>
          \A id \in Records :
              (uploadStore[id].status \notin Terminal
                 /\ uploadStore[id].idle > StaleThreshold)
                  => /\ \/ uploadStore'[id] = NoRec
                        \/ uploadStore'[id].status = "aborted"
                     /\ OwnChunks(chunksDir', id) = {}]_vars

\* C8: after complete has succeeded for a session, a repeated complete is
\* answered 200 and leaves the status and the final object as they are.
C8_CompleteIdempotent ==
    \A id \in Ids :
        (uploadStore[id] # NoRec /\ uploadStore[id].assembled)
            => /\ CompleteCode(uploadStore, chunksDir, id) = 200
               /\ CompleteStore(uploadStore, chunksDir, id)[id].status =
                      uploadStore[id].status
               /\ CompleteFinal(uploadStore, chunksDir, finalDir, id) = finalDir

\* C9: a putChunk for a session whose status is terminal changes neither the
\* received count, nor the status, nor the staging chunks.
C9_TerminalIsFrozen ==
    [][\A id \in Known, i \in Indices, t \in Totals, d \in Payloads, n \in FileNames :
          ( /\ uploadStore[id] # NoRec
            /\ uploadStore[id].status \in Terminal
            /\ ChunkUpload(id, i, t, d, n) )
          => /\ uploadStore'[id].uploadedChunks = uploadStore[id].uploadedChunks
             /\ uploadStore'[id].status = uploadStore[id].status
             /\ chunksDir' = chunksDir]_vars

\* C10: once a status read of a handle has returned completed, no status read
\* of that handle returns in_progress.
C10_StatusMonotonic ==
    \A id \in seenDone : StatusRead(uploadStore, id) # "in_progress"

\* C11: a restart keeps every session the registry held (each was created or
\* last changed by an acknowledged init or putChunk): it is still there, with
\* the same status and the same received chunks.
C11_RestartKeepsSessions ==
    [][Restart =>
          \A id \in issued :
              uploadStore[id] # NoRec
                  => /\ uploadStore'[id] # NoRec
                     /\ uploadStore'[id].status = uploadStore[id].status
                     /\ uploadStore'[id].received = uploadStore[id].received]_vars

\* C12: a putChunk whose persistence step throws (writeFile in the route,
\* trackChunk in the service) is not acknowledged and leaves the session's
\* received count, progress and status as they were, so resume reports what
\* it reported before the failure.
C12_FailedChunkLeavesSession ==
    [][ /\ \A c \in Calls, stored \in BOOLEAN :
             uploadChunk_trackChunkThrows(c, stored)
                => LET id == calls[c].uploadId
                   IN  /\ metadata'[id].uploadedChunks = metadata[id].uploadedChunks
                       /\ metadata'[id].status = metadata[id].status
                       /\ progress'[id] = progress[id]
                       /\ resumeUpload(metadata', progress', id) =
                              resumeUpload(metadata, progress, id)
                       /\ acks' = acks
        /\ \A id \in issued, i \in Indices, d \in Payloads, opened \in BOOLEAN :
             \A written \in 0..(Len(d) - 1) :
             (uploadStore[id] # NoRec /\ ChunkWriteFails(id, i, d, opened, written))
                => /\ uploadStore'[id].uploadedChunks = uploadStore[id].uploadedChunks
                   /\ uploadStore'[id].status = uploadStore[id].status
                   /\ uploadStore'[id].received = uploadStore[id].received ]_vars

\* a session of the service whose only chunk was stored by a trackChunk that
\* then rejected
C12_Witness ==
    \E id \in Uuids, i \in Indices :
        /\ metadata[id] # NoRec
        /\ chunkKeys[id][i] # NoFile
        /\ metadata[id].uploadedChunks = 0
        /\ metadata[id].status = "initialized"
        /\ calls[1] = IdleCall

\* C16: a putChunk for a handle init never issued is answered 404, creates
\* no session record and leaves no staging chunk of that handle.
C16_UnknownHandleRejected ==
    [][\A id \in Ids \ issued, i \in Indices, t \in Totals, d \in Payloads,
          n \in FileNames :
          ChunkUpload(id, i, t, d, n)
              => /\ ChunkCode(uploadStore, id) = 404
                 /\ uploadStore'[id] = NoRec
                 /\ OwnChunks(chunksDir', id) = {}]_vars

\* C17: a putChunk whose chunk index is not below the declared totalChunks of
\* its session is rejected, writes no staging chunk and leaves the received
\* count as it is.
C17_IndexOutOfRangeRejected ==
    [][\A id \in Known, i \in Indices, t \in Totals, d \in Payloads, n \in FileNames :
          ( /\ uploadStore[id] # NoRec
            /\ i >= uploadStore[id].totalChunks
            /\ ChunkUpload(id, i, t, d, n) )
          => /\ ChunkCode(uploadStore, id) # 200
             /\ chunksDir' = chunksDir
             /\ uploadStore'[id].uploadedChunks = uploadStore[id].uploadedChunks]_vars

\* no uploadChunk call of the service is in flight
Quiescent == \A c \in Calls : calls[c] = IdleCall

\* the uploadChunk calls for indices 0..n of uploadId that resolved
RECURSIVE AckSum(_, _)
AckSum(uploadId, n) ==
    IF n < 0 THEN 0 ELSE acks[uploadId][n] + AckSum(uploadId, n - 1)

\* C13: in the upload service, once uploadChunk has resolved exactly once for
\* each index 0..totalChunks-1 of a session (and for no other index, and no
\* call is in flight), getUploadStatus reports status 'completed'.
C13_AllChunksMeansCompleted ==
    \A id \in Uuids :
        ( /\ metadata[id] # NoRec
          /\ Quiescent
          /\ \A i \in Indices :
                acks[id][i] = IF i < metadata[id].totalChunks THEN 1 ELSE 0 )
            => getUploadStatus(metadata, progress, id).status = "completed"

\* C14: no update of the session metadata is lost: when the uploadChunk
\* calls that resolved for a session were for distinct indices, no assembly
\* has run and no call is in flight, the received count of the session is
\* the number of those calls.
C14_NoLostUpdate ==
    \A id \in Uuids :
        ( /\ metadata[id] # NoRec
          /\ Quiescent
          /\ metadata[id].status = "initialized"
          /\ \A i \in Indices : acks[id][i] <= 1 )
            => metadata[id].uploadedChunks = AckSum(id, MaxIndex)

\* C15: the result of resumeUpload marks an index below totalChunks as
\* received (the index is below the reported uploadedChunks) if and only if
\* chunk i of the session is stored and an uploadChunk for it resolved.
C15_ResumeIsExact ==
    \A id \in Uuids :
        (metadata[id] # NoRec /\ Quiescent)
            => \A i \in Indices :
                  i < metadata[id].totalChunks
                      => ( i < resumeUpload(metadata, progress, id).uploadedChunks
                             <=> ( /\ chunkKeys[id][i] # NoFile
                                   /\ acks[id][i] > 0 ) )

\* a chunk shorter than CHUNK_SIZE at an index that is not the last one, in a
\* session of more than one chunk
PartialChunk(call) ==
    /\ call.totalChunks > 1
    /\ call.chunkIndex < call.totalChunks - 1
    /\ Len(call.chunkData.bytes) < CHUNK_SIZE

\* C18: uploadChunk refuses a partial chunk: a call that carries one never
\* advances the received count or the progress and never resolves.
C18_PartialChunkRefused ==
    [][\A c \in Calls :
          (calls[c] # IdleCall /\ PartialChunk(calls[c]) /\ uploadChunk_update(c))
              => LET id == calls[c].uploadId
                 IN  /\ metadata'[id].uploadedChunks = calls[c].metadata.uploadedChunks
                     /\ progress'[id] = progress[id]
                     /\ acks' = acks]_vars

\* C19: the magic-number check applies to chunk index 0 only: no chunk
\* request with an index above 0 is refused by maliciousFileDetector.
C19_MagicOnlyForFirstChunk ==
    \A r \in refused : r.by = "maliciousFileDetector" => r.chunkIndex = 0

C21_UploadAllowanceUsable ==
    \A r \in answered :
        /\ r.status = 429 =>
               r.consumedPoints > points \/ r.totalHits > max
        /\ r.status = 429 => ~r.handler
        /\ r.totalHits <= max => r.status # 429

\* C22: at every moment at most MAX_PARALLEL_WRITES (16) chunk writes are in
\* flight across all sessions.
C22_WritesCapped == InFlight <= 16

\* C24: a chunk write that was in flight while DELETE ran for its handle
\* leaves nothing behind: when it is the only request left for the handle
\* and finishes, there is no staging chunk of the handle and no record.
C24_LateWriteLeavesNothing ==
    [][\A job \in overtaken :
          ( /\ ChunkWritten(job)
            /\ writing[job] = 1
            /\ \A other \in WriteJobs \ {job} : writing[other] = 0
            /\ uploadStore[job.uploadId] = NoRec
            /\ OwnChunks(chunksDir, job.uploadId) = {} )
          => /\ uploadStore'[job.uploadId] = NoRec
             /\ OwnChunks(chunksDir', job.uploadId) = {}]_vars

\* C23: assembly is atomic with respect to the final name: a complete
\* request writes under the final name only the whole file, every chunk
\* 0 .. totalChunks-1 of the session; a failure or a missing chunk in the
\* middle of the assembly leaves the final name as it was.
C23_AssemblyAtomic ==
    [][\A id \in Keys :
          (uploadStore[id] # NoRec /\ CompleteUpload(id))
          => \/ finalDir' = finalDir
             \/ AllReadable(chunksDir, id, uploadStore[id].totalChunks)]_vars

\* C25: final objects are keyed by handle: completing session b never
\* changes the final object of a different session a that has completed,
\* also when both declared the same file name.
C25_FinalKeyedByHandle ==
    [][\A a, b \in Keys :
          ( /\ a # b
            /\ uploadStore[a] # NoRec
            /\ uploadStore[a].assembled
            /\ CompleteCode(uploadStore, chunksDir, b) = 200
            /\ CompleteUpload(b) )
          => finalDir'[uploadStore[a].fileName]
                = finalDir[uploadStore[a].fileName]]_vars

\* C27: sessions are isolated on disk: complete(h) and abort(h) count and
\* delete only the staging chunks of handle h, and leave the staging chunks
\* of every other handle the server can hold as they are.
C27_SessionsIsolated ==
    [][\A h \in Ids :
          ( /\ uploadStore[h] # NoRec
            /\ CompleteUpload(h) \/ DeleteUpload(h) )
          => /\ relevantChunks(chunksDir, h) = OwnChunks(chunksDir, h)
             /\ \A other \in Ids \ {h} :
                   OwnChunks(chunksDir', other)
                      = OwnChunks(chunksDir, other)]_vars

\* C28: whenever the stored metadata of a session of the upload service has
\* status 'completed', its stored uploadedChunks equals its totalChunks.
C28_CompletedMeansAllCounted ==
    \A id \in Uuids :
        (metadata[id] # NoRec /\ metadata[id].status = "completed")
        => metadata[id].uploadedChunks = metadata[id].totalChunks

\* C29: the activeUploads statistic always equals the number of sessions
\* that were initialized and have not yet completed or failed, so it is
\* never negative.
C29_ActiveUploadsExact ==
    /\ uploadStats.activeUploads =
          Cardinality({id \in Uuids :
                         /\ metadata[id] # NoRec
                         /\ metadata[id].status \notin {"completed", "failed"}})
    /\ uploadStats.activeUploads >= 0

\* the files that have a startUpload loop with a chunk still to upload
Running ==
    {f \in Uris : \E l \in BagToSet(loops) : l.uri = f /\ l.i < MaxChunks}

\* C26: the mobile upload manager uploads at most 3 files at once: the
\* number of files whose upload loop is running never exceeds 3.
C26_AtMostThreeUploading == Cardinality(Running) <= 3

\* C30: in the mobile UploadItem at most one chunk-upload loop runs for the
\* file at a time, for any sequence of start, pause, resume, retry and
\* cancel: resume starts no second loop while the paused loop still waits.
C30_OneLoopPerItem == BagCardinality(running) <= 1

====
